---- MODULE Spec2Model ----
(***************************************************************************)
(* Model of the Editor Host of AI-IDE: the React component                 *)
(* EnhancedMonacoEditor (EnhancedMonacoEditor_Backup.jsx), its refs, its   *)
(* effects and their cleanups, the debounce timer and the asynchronous     *)
(* persist calls.  One action is one event-loop task: a React commit with  *)
(* all the effect cleanups and effect bodies it runs, an editor event, a   *)
(* timer callback, or the settling of a persist promise.                   *)
(***************************************************************************)
EXTENDS Integers, Sequences, FiniteSets, TLC

(***************************************************************************)
(* Bounds of the model.                                                    *)
(***************************************************************************)
MaxNameLen == 4
MaxEvents == 3
\* the most re-renders and Run calls of the toolbar
MaxToolbarEvents == 3
\* the most user actions in the chat panel
MaxChatEvents == 5

(***************************************************************************)
(* Strings are sequences of one-character strings, so that split, pop and  *)
(* toLowerCase are computed and not assumed.                               *)
(***************************************************************************)
NoName == <<"undefined">>

Alphabet == {"p", "y", "c", "P", "Y", "."}

RECURSIVE SeqsUpTo(_, _)
SeqsUpTo(S, n) ==
  IF n = 0 THEN {<<>>}
  ELSE LET shorter == SeqsUpTo(S, n - 1)
       IN  shorter \cup {Append(s, c) : s \in {t \in shorter : Len(t) = n - 1}, c \in S}

ExtraNames ==
  { <<"a", ".", "c", "o", "n", "s", "t", "r", "u", "c", "t", "o", "r">>,
    <<"M", "a", "i", "n", ".", "J", "A", "V", "A">>,
    <<"R", "E", "A", "D", "M", "E">>,
    <<"r", "e", "a", "d", "m", "e", ".", "t", "x", "t">>,
    <<"j", "s">>,
    <<"a", ".", "t", "a", "r", ".", "j", "s">> }

FileNames == SeqsUpTo(Alphabet, MaxNameLen) \cup ExtraNames

\* String.prototype.toLowerCase, one character
LowerChar(c) ==
  CASE c = "P" -> "p" [] c = "Y" -> "y" [] c = "M" -> "m" [] c = "J" -> "j"
    [] c = "A" -> "a" [] c = "V" -> "v" [] c = "R" -> "r" [] c = "E" -> "e"
    [] c = "D" -> "d" [] OTHER -> c

toLowerCase(s) == [i \in 1..Len(s) |-> LowerChar(s[i])]

\* filename.split('.').pop(): the part after the last dot, the whole string
\* when it holds no dot
RECURSIVE LastDot(_, _)
LastDot(s, i) == IF i = 0 THEN 0 ELSE IF s[i] = "." THEN i ELSE LastDot(s, i - 1)

SplitPop(s) == SubSeq(s, LastDot(s, Len(s)) + 1, Len(s))

languageMap ==
  ( <<"j", "s">> :> "javascript" ) @@
  ( <<"j", "s", "x">> :> "javascript" ) @@
  ( <<"t", "s">> :> "typescript" ) @@
  ( <<"t", "s", "x">> :> "typescript" ) @@
  ( <<"p", "y">> :> "python" ) @@
  ( <<"h", "t", "m", "l">> :> "html" ) @@
  ( <<"h", "t", "m">> :> "html" ) @@
  ( <<"c", "s", "s">> :> "css" ) @@
  ( <<"s", "c", "s", "s">> :> "scss" ) @@
  ( <<"s", "a", "s", "s">> :> "sass" ) @@
  ( <<"j", "s", "o", "n">> :> "json" ) @@
  ( <<"m", "d">> :> "markdown" ) @@
  ( <<"t", "x", "t">> :> "plaintext" ) @@
  ( <<"x", "m", "l">> :> "xml" ) @@
  ( <<"y", "m", "l">> :> "yaml" ) @@
  ( <<"y", "a", "m", "l">> :> "yaml" ) @@
  ( <<"s", "h">> :> "shell" ) @@
  ( <<"b", "a", "s", "h">> :> "shell" ) @@
  ( <<"s", "q", "l">> :> "sql" ) @@
  ( <<"p", "h", "p">> :> "php" ) @@
  ( <<"j", "a", "v", "a">> :> "java" ) @@
  ( <<"c", "p", "p">> :> "cpp" ) @@
  ( <<"c">> :> "c" ) @@
  ( <<"c", "s">> :> "csharp" ) @@
  ( <<"g", "o">> :> "go" ) @@
  ( <<"r", "s">> :> "rust" ) @@
  ( <<"r", "b">> :> "ruby" )

\* Lower-case property names every object literal inherits from
\* Object.prototype: languageMap[extension] finds them too, and both values
\* are truthy.
InheritedKeys ==
  ( <<"c", "o", "n", "s", "t", "r", "u", "c", "t", "o", "r">> :> "[Function: Object]" ) @@
  ( <<"_", "_", "p", "r", "o", "t", "o", "_", "_">> :> "[Object: null prototype]" )

\* languageMap[extension] || 'plaintext'
MapLookup(extension) ==
  IF extension \in DOMAIN languageMap THEN languageMap[extension]
  ELSE IF extension \in DOMAIN InheritedKeys THEN InheritedKeys[extension]
  ELSE "plaintext"

getLanguageFromExtension(filename) ==
  IF filename = NoName THEN "plaintext"
  ELSE MapLookup(toLowerCase(SplitPop(filename)))


(***************************************************************************)
(* The external world: the files the project context can make current,     *)
(* the props the parent can pass, the reasons a persist can be rejected    *)
(* with.                                                                   *)
(***************************************************************************)
NoFile == [id |-> "none", name |-> NoName, content |-> <<>>]

Files ==
  { [id |-> "f1", name |-> <<"c", ".", "p", "y">>, content |-> <<"a">>],
    [id |-> "f2", name |-> <<"p", ".", "c">>, content |-> <<"b">>] }

Themes == {"vs-dark", "light"}
FontSizes == {14, 16}
Delays == {1, 2}
Keys == {"b"}
Reasons == {"network error"}
LoadFaults == {"none", "createModel", "setModel"}
MaxDelay == CHOOSE d \in Delays : \A x \in Delays : x <= d

DefaultTheme == "vs-dark"
DefaultFontSize == 14
\* autoSaveDelay = 2000, in units of 1000 ms
DefaultDelay == 2
DefaultLanguage == "javascript"

VARIABLES
  phase,          \* "uninitialized" | "mounted" | "unmounted"
  props,          \* [theme, fontSize, autoSave, autoSaveDelay]
  currentFile,    \* useProject().currentFile, NoFile for null
  events,         \* number of keystrokes, Ctrl/Cmd+S presses and re-renders so far
  editorRef,      \* editorRef.current: an index of editors, 0 for null
  saveTimeoutRef, \* saveTimeoutRef.current: a timer id, 0 for null
  modelRef,       \* modelRef.current: an index of models, 0 for null
  disposablesRef, \* disposablesRef.current: indices of listeners
  isDisposedRef,  \* isDisposedRef.current
  initCleanup,    \* the editor the pending cleanup of the init effect closes over, 0 for none
  editorState,    \* [isLoading, hasUnsavedChanges, language]
  editors,        \* the editing surfaces monaco.editor.create has returned
  models,         \* the text models created so far
  listeners,      \* the content-change listeners registered so far
  timers,         \* the timeouts that are set and have not fired, with the ticks left
  nextTimer,      \* the id the next setTimeout returns
  persistLog,     \* the calls of saveFileContent, in order
  errors,         \* the messages setError has received, in order
  uncaught,       \* an exception has left a handler of the component
  edits,          \* number of content-change events so far
  sinceChange,    \* ticks since the latest content-change event, up to the longest delay
  teardowns,      \* number of cleanup runs so far
  themeDefs,      \* number of monaco.editor.defineTheme calls so far
  monacoTheme,    \* the theme monaco.editor.setTheme has applied, "" for none
  loadFailures,   \* number of load-file effect runs in which a library call threw
  peakModels,     \* the most text models that were live at one point of a handler
  toolbar,        \* the EditorToolbar component and what it has dispatched
  chat            \* the AIAssistant component and its requests in flight

hostVars ==
  << phase, props, currentFile, events, editorRef, saveTimeoutRef, modelRef,
     disposablesRef, isDisposedRef, initCleanup, editorState, editors, models,
     listeners, timers, nextTimer, persistLog, errors, uncaught, edits,
     sinceChange, teardowns, themeDefs, monacoTheme, loadFailures, peakModels >>

vars == << hostVars, toolbar, chat >>

\* The state the handlers of the component read and write, as one record.
Cur ==
  [ editorRef |-> editorRef, saveTimeoutRef |-> saveTimeoutRef, modelRef |-> modelRef,
    disposablesRef |-> disposablesRef, isDisposedRef |-> isDisposedRef,
    initCleanup |-> initCleanup, editorState |-> editorState, editors |-> editors,
    models |-> models, listeners |-> listeners, timers |-> timers,
    nextTimer |-> nextTimer, persistLog |-> persistLog, errors |-> errors,
    uncaught |-> uncaught, edits |-> edits, sinceChange |-> sinceChange,
    teardowns |-> teardowns, themeDefs |-> themeDefs, monacoTheme |-> monacoTheme,
    loadFailures |-> loadFailures, peakModels |-> peakModels ]

Commit(s) ==
  /\ editorRef' = s.editorRef
  /\ saveTimeoutRef' = s.saveTimeoutRef
  /\ modelRef' = s.modelRef
  /\ disposablesRef' = s.disposablesRef
  /\ isDisposedRef' = s.isDisposedRef
  /\ initCleanup' = s.initCleanup
  /\ editorState' = s.editorState
  /\ editors' = s.editors
  /\ models' = s.models
  /\ listeners' = s.listeners
  /\ timers' = s.timers
  /\ nextTimer' = s.nextTimer
  /\ persistLog' = s.persistLog
  /\ errors' = s.errors
  /\ uncaught' = s.uncaught
  /\ edits' = s.edits
  /\ sinceChange' = s.sinceChange
  /\ teardowns' = s.teardowns
  /\ themeDefs' = s.themeDefs
  /\ monacoTheme' = s.monacoTheme
  /\ loadFailures' = s.loadFailures
  /\ peakModels' = s.peakModels

\* What one render closes over: the values useCallback and the effects capture.
Render(file, p) ==
  [ file |-> file, theme |-> p.theme, fontSize |-> p.fontSize,
    autoSave |-> p.autoSave, delay |-> p.autoSaveDelay ]

\* theme === 'light' ? 'ai-ide-light' : 'ai-ide-dark'
ThemeName(theme) == IF theme = "light" THEN "ai-ide-light" ELSE "ai-ide-dark"

(***************************************************************************)
(* The editor library, as far as the component uses it.                    *)
(***************************************************************************)
\* editor.dispose(): the surface is gone, and with it the model it created
\* itself; the model is detached, so the editor shows nothing afterwards
DisposeEditor(s, e) ==
  LET ed == s.editors[e]
      owned == ed.ownsModel /\ ed.model # 0
  IN  [s EXCEPT !.editors[e].live = FALSE,
                !.editors[e].disposeCalls = @ + 1,
                !.editors[e].model = 0,
                !.editors[e].ownsModel = FALSE,
                !.models = IF owned /\ ed.live
                           THEN [@ EXCEPT ![ed.model].live = FALSE]
                           ELSE @]

\* model.dispose(): the buffer is gone, and every editor showing it shows nothing
DisposeModel(s, m) ==
  [s EXCEPT !.models[m].live = FALSE,
            !.models[m].disposeCalls = @ + 1,
            !.editors = [e \in DOMAIN @ |->
                           IF @[e].model = m THEN [@[e] EXCEPT !.model = 0] ELSE @[e]]]

\* the IDisposable of onDidChangeModelContent
DisposeListener(s, l) ==
  [s EXCEPT !.listeners[l].live = FALSE, !.listeners[l].disposeCalls = @ + 1]

Dispose(s, kind, r) ==
  CASE kind = "editor" -> DisposeEditor(s, r)
    [] kind = "model" -> DisposeModel(s, r)
    [] OTHER -> DisposeListener(s, r)

\* the text models that are live in s
LiveModels(s) == {m \in DOMAIN s.models : s.models[m].live}

\* a point of a handler is passed: the number of live models is noted
NoteModels(s) ==
  [s EXCEPT !.peakModels = IF Cardinality(LiveModels(s)) > @
                           THEN Cardinality(LiveModels(s)) ELSE @]

\* editor.getValue()
EditorValue(s, e) ==
  IF s.editors[e].model = 0 THEN [text |-> <<>>, ver |-> s.edits]
  ELSE s.models[s.editors[e].model].content


(***************************************************************************)
(* The helpers of the component.                                           *)
(***************************************************************************)
\* safeDispose without its try/catch: an exception of dispose() escapes
safeDisposeNoCatch(s, kind, r, throws) ==
  IF r = 0 THEN s
  ELSE [Dispose(s, kind, r) EXCEPT !.uncaught = @ \/ throws]

\* safeDispose with `if` for the `else if` of line 75: a resource without an
\* isDisposed property (an editor, a listener) passes both tests and is
\* disposed twice; a model, whose isDisposed is a method, passes the second
safeDisposeBothBranches(s, kind, r, throws) ==
  IF r = 0 THEN s
  ELSE IF kind = "model" THEN Dispose(s, kind, r)
  ELSE Dispose(Dispose(s, kind, r), kind, r)

\* safeDispose (lines 69-83): both branches of the isDisposed test call
\* dispose(), and whatever dispose() throws is swallowed by the catch.
safeDispose(s, kind, r, throws) ==
  IF r = 0 THEN s
  ELSE Dispose(s, kind, r)

RECURSIVE DisposeAll(_, _, _)
DisposeAll(s, ls, throws) ==
  IF ls = <<>> THEN s
  ELSE DisposeAll(safeDispose(s, "listener", Head(ls), throws), Tail(ls), throws)

\* clearDisposables (lines 86-93)
clearDisposables(s, throws) ==
  IF s.isDisposedRef THEN s
  ELSE [DisposeAll(s, s.disposablesRef, throws) EXCEPT !.disposablesRef = <<>>]

\* clearTimeout(id)
clearTimeout(s, id) == [s EXCEPT !.timers = {t \in @ : t.id # id}]

\* setTimeout(callback, delay), the callback closing over content and c
setTimeout(s, content, c) ==
  [s EXCEPT !.timers = @ \cup {[id |-> s.nextTimer, left |-> c.delay,
                                content |-> content, closure |-> c]},
            !.saveTimeoutRef = s.nextTimer,
            !.nextTimer = @ + 1]

\* debouncedSave that leaves the earlier timeout running
debouncedSaveNoCancel(s, content, c) == setTimeout(s, content, c)

\* debouncedSave (lines 96-112), up to the scheduling of the callback
debouncedSave(s, content, c) ==
  setTimeout(IF s.saveTimeoutRef # 0 THEN clearTimeout(s, s.saveTimeoutRef) ELSE s,
             content, c)

\* saveFileContent(id, content) is called: the promise is pending.  The call
\* is logged with what held when it was made: the number of content changes
\* so far, the ticks since the latest one, the timeouts running, whether the
\* host was disposed, and (cfg) the delay, the current file and the autoSave
\* setting then in force.
saveFileContent(s, kind, id, content, cfg) ==
  [s EXCEPT !.persistLog =
     Append(@, [kind |-> kind, id |-> id, content |-> content,
                status |-> "pending", reason |-> "",
                bufVer |-> s.edits, elapsed |-> s.sinceChange,
                timersPending |-> Cardinality(s.timers),
                disposed |-> s.isDisposedRef,
                cfgDelay |-> cfg.autoSaveDelay, cfgFile |-> cfg.fileId,
                cfgAutoSave |-> cfg.autoSave])]

\* the timer callback of debouncedSave (lines 101-111), up to the await
TimerCallback(s, tm, cfg) ==
  LET s1 == [s EXCEPT !.timers = @ \ {tm}]
  IN  IF tm.closure.file # NoFile /\ tm.closure.autoSave
      THEN saveFileContent(s1, "auto", tm.closure.file.id, tm.content, cfg)
      ELSE s1

\* handleSave that persists the content the file was loaded with
handleSaveStale(s, c, cfg) ==
  IF c.file = NoFile \/ s.editorRef = 0 THEN s
  ELSE saveFileContent(s, "manual", c.file.id, [text |-> c.file.content, ver |-> 0], cfg)

\* handleSave (lines 115-125), up to the await
handleSave(s, c, cfg) ==
  IF c.file = NoFile \/ s.editorRef = 0 THEN s
  ELSE saveFileContent(s, "manual", c.file.id, EditorValue(s, s.editorRef), cfg)

\* a listener that schedules the debounced save whatever autoSave is
ContentListenerAlways(s, l) ==
  LET c == s.listeners[l].closure
      s1 == [s EXCEPT !.editorState.hasUnsavedChanges = TRUE]
  IN  debouncedSave(s1, EditorValue(s1, s.listeners[l].editor), c)

\* the onDidChangeModelContent listener (lines 236-243)
ContentListener(s, l) ==
  LET c == s.listeners[l].closure
      s1 == [s EXCEPT !.editorState.hasUnsavedChanges = TRUE]
  IN  IF c.autoSave
      THEN debouncedSave(s1, EditorValue(s1, s.listeners[l].editor), c)
      ELSE s1

\* the editor fires onDidChangeModelContent: every live listener of e runs
RECURSIVE FireContentChange(_, _, _)
FireContentChange(s, e, l) ==
  IF l > Len(s.listeners) THEN s
  ELSE FireContentChange(
         IF s.listeners[l].live /\ s.listeners[l].editor = e
         THEN ContentListener(s, l) ELSE s,
         e, l + 1)

\* the buffer of editor e becomes text (typing, or editor.setValue): the
\* model changes and the content-change event fires
ChangeContent(s, e, text) ==
  IF s.editors[e].model = 0 THEN s
  ELSE LET s1 == [s EXCEPT !.models[s.editors[e].model].content =
                             [text |-> text, ver |-> s.edits + 1],
                           !.edits = @ + 1,
                           !.sinceChange = 0]
       IN  FireContentChange(s1, e, 1)


(***************************************************************************)
(* The effects of the component and their cleanups.  r is the render the   *)
(* effect runs in.                                                         *)
(***************************************************************************)
\* the themes the init effect defines (lines 135, 157)
ThemeNames == {"ai-ide-dark", "ai-ide-light"}

\* the init effect (lines 128-251); containerRef.current is set in every commit
InitEffect(s, r) ==
  IF s.isDisposedRef THEN [s EXCEPT !.initCleanup = 0]
  ELSE LET m == Len(s.models) + 1
           e == Len(s.editors) + 1
           l == Len(s.listeners) + 1
       IN  NoteModels([s EXCEPT
             !.isDisposedRef = FALSE,
             !.themeDefs = @ + Cardinality(ThemeNames),
             !.models = Append(@, [live |-> TRUE, content |-> [text |-> <<>>, ver |-> s.edits],
                                   language |-> "javascript", disposeCalls |-> 0]),
             !.editors = Append(@, [live |-> TRUE, model |-> m, ownsModel |-> TRUE,
                                    closure |-> r, theme |-> ThemeName(r.theme),
                                    fontSize |-> r.fontSize, disposeCalls |-> 0]),
             !.listeners = Append(@, [live |-> TRUE, editor |-> e, closure |-> r,
                                      disposeCalls |-> 0]),
             !.editorRef = e,
             !.disposablesRef = Append(@, l),
             !.initCleanup = e])

\* the pending timeout is cleared and the ref reset (lines 263-266, 349-352)
ClearSaveTimeout(s) ==
  IF s.saveTimeoutRef # 0
  THEN [clearTimeout(s, s.saveTimeoutRef) EXCEPT !.saveTimeoutRef = 0]
  ELSE s

\* the init cleanup that leaves the pending timeout running
InitCleanupKeepTimer(s, throws) ==
  IF s.initCleanup = 0 THEN s
  ELSE LET s1 == [s EXCEPT !.isDisposedRef = TRUE]
           s2 == clearDisposables(s1, throws)
           s3 == safeDispose(s2, "editor", s.initCleanup, throws)
       IN  [s3 EXCEPT !.editorRef = 0, !.initCleanup = 0, !.teardowns = @ + 1]

\* an init effect that returns no cleanup: nothing is disposed or marked
InitCleanupMissing(s, throws) == s

\* the cleanup of the init effect (lines 253-269)
InitCleanup(s, throws) ==
  IF s.initCleanup = 0 THEN s
  ELSE LET s1 == [s EXCEPT !.isDisposedRef = TRUE]
           s2 == clearDisposables(s1, throws)
           s3 == safeDispose(s2, "editor", s.initCleanup, throws)
           s4 == ClearSaveTimeout(s3)
       IN  [s4 EXCEPT !.editorRef = 0, !.initCleanup = 0, !.teardowns = @ + 1]

\* setError(message)
setError(s, prefix, reason) == [s EXCEPT !.errors = Append(@, <<prefix, reason>>)]

\* editor.setModel(m): the editor shows m; the model the editor had created
\* itself is disposed when it is detached
SetModel(s, e, m) ==
  LET ed == s.editors[e]
      s1 == IF ed.ownsModel /\ ed.model # 0
            THEN [s EXCEPT !.models[ed.model].live = FALSE]
            ELSE s
  IN  [s1 EXCEPT !.editors[e].model = m, !.editors[e].ownsModel = FALSE]

\* the load-file effect (lines 273-326); fault names the library call that throws
LoadEffect(s, r, fault) ==
  IF s.editorRef = 0 \/ r.file = NoFile \/ s.isDisposedRef
  THEN IF s.editorRef # 0 /\ r.file = NoFile
       THEN [ChangeContent(s, s.editorRef, <<>>)
               EXCEPT !.editorState.language = "javascript"]
       ELSE s
  ELSE LET s1 == [s EXCEPT !.editorState.isLoading = TRUE]
           language == getLanguageFromExtension(r.file.name)
           s2 == IF s1.modelRef # 0
                 THEN [safeDispose(s1, "model", s1.modelRef, FALSE) EXCEPT !.modelRef = 0]
                 ELSE s1
           m == Len(s2.models) + 1
           s3 == NoteModels([s2 EXCEPT
                   !.models = Append(@, [live |-> TRUE,
                                         content |-> [text |-> r.file.content, ver |-> s.edits],
                                         language |-> language, disposeCalls |-> 0]),
                   !.modelRef = m])
           s4 == SetModel(s3, s3.editorRef, m)
           s5 == [s4 EXCEPT !.editorState.isLoading = FALSE,
                            !.editorState.language = language,
                            !.editorState.hasUnsavedChanges = FALSE]
           Thrown(x) == [x EXCEPT !.loadFailures = @ + 1]
           Caught(x, what) ==
             [setError(x, "Failed to load file: ", what)
                EXCEPT !.editorState.isLoading = FALSE]
       IN  CASE fault = "createModel" -> Caught(Thrown(s2), "createModel failed")
             [] fault = "setModel" -> Thrown(s3)
             [] OTHER -> s5

\* the theme effect (lines 329-333)
ThemeEffect(s, r) ==
  IF s.editorRef # 0 THEN [s EXCEPT !.monacoTheme = ThemeName(r.theme)] ELSE s

\* the font-size effect (lines 336-340)
FontSizeEffect(s, r) ==
  IF s.editorRef # 0 THEN [s EXCEPT !.editors[s.editorRef].fontSize = r.fontSize] ELSE s

\* the cleanup of the unmount effect (lines 344-356)
UnmountCleanup(s, throws) ==
  LET s1 == [s EXCEPT !.isDisposedRef = TRUE]
      s2 == clearDisposables(s1, throws)
      s3 == safeDispose(s2, "model", s2.modelRef, throws)
      s4 == ClearSaveTimeout(s3)
  IN  [s4 EXCEPT !.modelRef = 0, !.editorRef = 0, !.teardowns = @ + 1]

\* the promise of a persist call resolves: the code after the await
\* (lines 105, 121); React drops a state update of an unmounted component
PersistResolved(s, i, mounted) ==
  LET s1 == [s EXCEPT !.persistLog[i].status = "ok"]
  IN  IF mounted THEN [s1 EXCEPT !.editorState.hasUnsavedChanges = FALSE] ELSE s1

\* a catch that also clears the unsaved flag and reports nothing
PersistRejectedSilent(s, i, reason, mounted) ==
  [s EXCEPT !.persistLog[i].status = "failed",
            !.persistLog[i].reason = reason,
            !.editorState.hasUnsavedChanges = FALSE]

\* a catch that makes the rejected call again
PersistRejectedRetry(s, i, reason, mounted) ==
  LET s1 == setError([s EXCEPT !.persistLog[i].status = "failed",
                               !.persistLog[i].reason = reason],
                     "Save failed: ", reason)
  IN  [s1 EXCEPT !.persistLog = Append(@, [s.persistLog[i] EXCEPT !.status = "pending"])]

\* the promise of a persist call rejects: the catch (lines 106-109, 122-124)
PersistRejected(s, i, reason, mounted) ==
  setError([s EXCEPT !.persistLog[i].status = "failed", !.persistLog[i].reason = reason],
           IF s.persistLog[i].kind = "auto" THEN "Auto-save failed: " ELSE "Save failed: ",
           reason)


(***************************************************************************)
(* The editor toolbar (EditorToolbar.jsx).                                 *)
(***************************************************************************)
\* currentFile, user and currentProject of the toolbar, "none" for null
NoToolbarFile == [name |-> <<>>, content |-> <<>>, loaded |-> FALSE]
NoUser == "none"
NoProject == "none"
Users == {"u1"}
Projects == {"p1"}

\* the file names the toolbar is shown for: one per extension of the two
\* tables, and names with an unknown extension, without a dot, in upper case,
\* with the extension twice, and a file without a name
ToolbarNames ==
  { <<"m", ".", "R">>, <<"m", ".", "b", "a", "s", "h">>, <<"m", ".", "c">>,
    <<"m", ".", "c", "c">>, <<"m", ".", "c", "p", "p">>, <<"m", ".", "c", "s">>,
    <<"m", ".", "c", "s", "s">>, <<"m", ".", "c", "x", "x">>,
    <<"m", ".", "d", "a", "r", "t">>, <<"m", ".", "e", "r", "l">>, <<"m", ".", "e", "x">>,
    <<"m", ".", "e", "x", "s">>, <<"m", ".", "g", "o">>,
    <<"m", ".", "g", "r", "o", "o", "v", "y">>, <<"m", ".", "h">>, <<"m", ".", "h", "s">>,
    <<"m", ".", "h", "t", "m">>, <<"m", ".", "h", "t", "m", "l">>,
    <<"m", ".", "j", "a", "v", "a">>, <<"m", ".", "j", "s">>, <<"m", ".", "j", "s", "x">>,
    <<"m", ".", "k", "t">>, <<"m", ".", "k", "t", "s">>, <<"m", ".", "l", "h", "s">>,
    <<"m", ".", "l", "u", "a">>, <<"m", ".", "m", "j", "s">>, <<"m", ".", "p", "h", "p">>,
    <<"m", ".", "p", "l">>, <<"m", ".", "p", "y">>, <<"m", ".", "p", "y", "i">>,
    <<"m", ".", "p", "y", "x">>, <<"m", ".", "r">>, <<"m", ".", "r", "b">>,
    <<"m", ".", "r", "s">>, <<"m", ".", "s", "c">>, <<"m", ".", "s", "c", "a", "l", "a">>,
    <<"m", ".", "s", "h">>, <<"m", ".", "s", "v", "g">>,
    <<"m", ".", "s", "w", "i", "f", "t">>, <<"m", ".", "t", "s">>,
    <<"m", ".", "t", "s", "x">>, <<"m", ".", "x", "m", "l">>, <<"m", ".", "t", "x", "t">>,
    <<"m", ".", "c", "l", "a", "s", "s">>, <<"p", "y">>, <<"M", ".", "P", "Y">>,
    <<"M", ".", "J", "A", "V", "A">>, <<"a", ".", "c", ".", "c">>,
    <<"R", "E", "A", "D", "M", "E">>, NoName }

\* content: empty, blank and not blank
ToolbarContents == {<<>>, <<" ">>, <<"x">>}

ToolbarFiles == [name : ToolbarNames, content : ToolbarContents, loaded : {TRUE}]

\* the files the user switches to while the toolbar is shown
OpenFiles ==
  { [name |-> <<"m", ".", "h", "t", "m", "l">>, content |-> <<"x">>, loaded |-> TRUE],
    [name |-> <<"m", ".", "p", "y", "x">>, content |-> <<"x">>, loaded |-> TRUE],
    NoToolbarFile }

\* executableExtensions (lines 60-86)
executableExtensions ==
  { <<"j", "s">>, <<"j", "s", "x">>, <<"m", "j", "s">>, <<"t", "s">>, <<"t", "s", "x">>,
    <<"p", "y">>, <<"p", "y", "x">>, <<"p", "y", "i">>, <<"j", "a", "v", "a">>, <<"c">>,
    <<"c", "p", "p">>, <<"c", "c">>, <<"c", "x", "x">>, <<"h">>, <<"c", "s">>,
    <<"g", "o">>, <<"r", "s">>, <<"r", "b">>, <<"p", "h", "p">>, <<"p", "l">>,
    <<"l", "u", "a">>, <<"s", "w", "i", "f", "t">>, <<"k", "t">>, <<"k", "t", "s">>,
    <<"s", "c", "a", "l", "a">>, <<"s", "c">>, <<"R">>, <<"r">>, <<"e", "x">>,
    <<"e", "x", "s">>, <<"e", "r", "l">>, <<"h", "s">>, <<"l", "h", "s">>,
    <<"d", "a", "r", "t">>, <<"g", "r", "o", "o", "v", "y">>, <<"s", "h">>,
    <<"b", "a", "s", "h">>, <<"h", "t", "m", "l">>, <<"h", "t", "m">>, <<"c", "s", "s">>,
    <<"s", "v", "g">>, <<"x", "m", "l">> }

\* file.name.split('.').pop()?.toLowerCase() (lines 59, 95)
Extension(name) == toLowerCase(SplitPop(name))

\* isExecutableFile (lines 57-88)
isExecutableFile(file) ==
  IF ~file.loaded \/ file.name = NoName \/ file.name = <<>> THEN FALSE
  ELSE Extension(file.name) \in executableExtensions

\* the case labels of the switch of handleRunCode (lines 98-211), each with
\* the program its command starts with
runCases ==
  ( <<"p", "y">> :> "python" ) @@
  ( <<"j", "s">> :> "node" ) @@
  ( <<"m", "j", "s">> :> "node" ) @@
  ( <<"j", "s", "x">> :> "tsx" ) @@
  ( <<"t", "s">> :> "ts-node" ) @@
  ( <<"t", "s", "x">> :> "tsx" ) @@
  ( <<"j", "a", "v", "a">> :> "javac" ) @@
  ( <<"c", "p", "p">> :> "g++" ) @@
  ( <<"c", "c">> :> "g++" ) @@
  ( <<"c", "x", "x">> :> "g++" ) @@
  ( <<"c">> :> "gcc" ) @@
  ( <<"c", "s">> :> "mcs" ) @@
  ( <<"g", "o">> :> "/usr/local/go/bin/go run" ) @@
  ( <<"r", "s">> :> "/root/.cargo/bin/rustc" ) @@
  ( <<"r", "b">> :> "ruby" ) @@
  ( <<"p", "h", "p">> :> "php" ) @@
  ( <<"p", "l">> :> "perl" ) @@
  ( <<"l", "u", "a">> :> "lua" ) @@
  ( <<"k", "t">> :> "kotlinc" ) @@
  ( <<"k", "t", "s">> :> "kotlinc" ) @@
  ( <<"s", "c", "a", "l", "a">> :> "scala" ) @@
  ( <<"s", "c">> :> "scala" ) @@
  ( <<"R">> :> "Rscript" ) @@
  ( <<"r">> :> "Rscript" ) @@
  ( <<"e", "x">> :> "elixir" ) @@
  ( <<"e", "x", "s">> :> "elixir" ) @@
  ( <<"e", "r", "l">> :> "escript" ) @@
  ( <<"h", "s">> :> "runhaskell" ) @@
  ( <<"l", "h", "s">> :> "runhaskell" ) @@
  ( <<"d", "a", "r", "t">> :> "dart run" ) @@
  ( <<"g", "r", "o", "o", "v", "y">> :> "groovy" ) @@
  ( <<"s", "h">> :> "bash" ) @@
  ( <<"b", "a", "s", "h">> :> "bash" ) @@
  ( <<"s", "w", "i", "f", "t">> :> "swift" ) @@
  ( <<"h", "t", "m", "l">> :> "echo" ) @@
  ( <<"h", "t", "m">> :> "echo" ) @@
  ( <<"c", "s", "s">> :> "echo" ) @@
  ( <<"s", "v", "g">> :> "cat" ) @@
  ( <<"x", "m", "l">> :> "cat" )

\* the first index from i on at which pat occurs in s, 0 for none
RECURSIVE IndexOf(_, _, _)
IndexOf(s, pat, i) ==
  IF i + Len(pat) - 1 > Len(s) THEN 0
  ELSE IF SubSeq(s, i, i + Len(pat) - 1) = pat THEN i
  ELSE IndexOf(s, pat, i + 1)

\* String.prototype.replace with a string pattern: the first occurrence
ReplaceFirst(s, pat, with) ==
  LET i == IndexOf(s, pat, 1)
  IN  IF i = 0 THEN s
      ELSE SubSeq(s, 1, i - 1) \o with \o SubSeq(s, i + Len(pat), Len(s))

\* String.prototype.replace with /\.(a|b|c)$/: one of the endings, at the end
ReplaceEnding(s, endings, with) ==
  IF \E x \in endings : Len(x) <= Len(s) /\ SubSeq(s, Len(s) - Len(x) + 1, Len(s)) = x
  THEN LET x == CHOOSE x \in endings :
                  Len(x) <= Len(s) /\ SubSeq(s, Len(s) - Len(x) + 1, Len(s)) = x
       IN  SubSeq(s, 1, Len(s) - Len(x)) \o with
  ELSE s

\* the output file a compile command names (lines 116, 122, 126, 130, 137, 154)
OutFile(ext, fileName) ==
  CASE ext = <<"j", "a", "v", "a">> -> ReplaceFirst(fileName, <<".", "j", "a", "v", "a">>, <<>>)
    [] ext \in {<<"c", "p", "p">>, <<"c", "c">>, <<"c", "x", "x">>}
         -> ReplaceEnding(fileName, {<<".", "c", "p", "p">>, <<".", "c", "c">>, <<".", "c", "x", "x">>}, <<>>)
    [] ext = <<"c">> -> ReplaceFirst(fileName, <<".", "c">>, <<>>)
    [] ext = <<"c", "s">> -> ReplaceFirst(fileName, <<".", "c", "s">>, <<".", "e", "x", "e">>)
    [] ext = <<"r", "s">> -> ReplaceFirst(fileName, <<".", "r", "s">>, <<>>)
    [] ext \in {<<"k", "t">>, <<"k", "t", "s">>}
         -> ReplaceEnding(fileName, {<<".", "k", "t">>, <<".", "k", "t", "s">>}, <<".", "j", "a", "r">>)
    [] OTHER -> <<>>

\* encodeURIComponent, one character: letters, digits and . are kept
EncodeChar(c) == IF c = " " THEN "%20" ELSE c

encodeURIComponent(s) == [i \in 1..Len(s) |-> EncodeChar(s[i])]

NoUrl == [user |-> NoUser, project |-> NoProject, file |-> <<>>]

\* the preview URL of line 193
PreviewUrl(user, project, fileName) ==
  [user |-> user, project |-> project, file |-> encodeURIComponent(fileName)]

\* what handleRunCode closes over: useCallback(..., [currentFile, currentProject])
RunClosure(file, user, project) == [file |-> file, user |-> user, project |-> project]

\* the command of the switch (lines 97-211) for a case label ext
RunCommand(ext, c) ==
  LET html == ext \in {<<"h", "t", "m", "l">>, <<"h", "t", "m">>}
      preview == html /\ c.user # NoUser /\ c.project # NoProject
  IN  [ tool |-> runCases[ext],
        file |-> c.file.name,
        out |-> OutFile(ext, c.file.name),
        preview |-> IF html THEN (IF preview THEN "opening" ELSE "cannot preview") ELSE "",
        url |-> IF preview THEN PreviewUrl(c.user, c.project, c.file.name) ELSE NoUrl ]

\* document.dispatchEvent(new CustomEvent(type, {detail: {command}}))
CustomEvent(type, detail) == [type |-> type, detail |-> detail]
NoDetail == [tool |-> "", file |-> <<>>, out |-> <<>>, preview |-> "", url |-> NoUrl]

\* handleRunCode that switches to the terminal before it sends the command
handleRunCodeShowFirst(t, c) ==
  IF ~c.file.loaded \/ c.file.content = <<>> THEN t
  ELSE IF c.file.name = NoName THEN [t EXCEPT !.thrown = TRUE]
  ELSE LET ext == Extension(c.file.name)
       IN  IF ext \notin DOMAIN runCases THEN [t EXCEPT !.warned = @ + 1]
           ELSE LET command == RunCommand(ext, c)
                IN  [t EXCEPT
                      !.opened = IF command.url # NoUrl THEN Append(@, command.url) ELSE @,
                      !.dispatched = @ \o << CustomEvent("show-terminal", NoDetail),
                                             CustomEvent("run-in-terminal", command) >>]

\* handleRunCode (lines 90-224), c being what the callback closed over
handleRunCode(t, c) ==
  IF ~c.file.loaded \/ c.file.content = <<>> THEN t
  ELSE IF c.file.name = NoName THEN [t EXCEPT !.thrown = TRUE]
  ELSE LET ext == Extension(c.file.name)
       IN  IF ext \notin DOMAIN runCases THEN [t EXCEPT !.warned = @ + 1]
           ELSE LET command == RunCommand(ext, c)
                IN  [t EXCEPT
                      !.opened = IF command.url # NoUrl THEN Append(@, command.url) ELSE @,
                      !.dispatched = @ \o << CustomEvent("run-in-terminal", command),
                                             CustomEvent("show-terminal", NoDetail) >>]

\* String.prototype.trim
RECURSIVE TrimStart(_)
TrimStart(s) == IF s # <<>> /\ Head(s) = " " THEN TrimStart(Tail(s)) ELSE s

RECURSIVE TrimEnd(_)
TrimEnd(s) ==
  IF s # <<>> /\ s[Len(s)] = " " THEN TrimEnd(SubSeq(s, 1, Len(s) - 1)) ELSE s

trim(s) == TrimEnd(TrimStart(s))

\* the Run button is rendered and enabled (lines 235, 249, 253)
RunEnabled(t) ==
  /\ t.file.loaded
  /\ isExecutableFile(t.file)
  /\ trim(t.file.content) # <<>>
  /\ t.user # NoUser

\* the toolbar as it is first rendered
ToolbarWith(file, user, project) ==
  [ file |-> file, user |-> user, project |-> project,
    run |-> RunClosure(file, user, project),
    dispatched |-> <<>>, opened |-> <<>>, warned |-> 0, thrown |-> FALSE,
    clicks |-> 0, events |-> 0 ]

\* the toolbar is not rendered
NoToolbar == ToolbarWith(NoToolbarFile, NoUser, NoProject)

(***************************************************************************)
(* The chat panel (AIAssistant, lines 422-506 of the editor's file).       *)
(***************************************************************************)
\* what the user can have typed: nothing, blanks, text, text with a blank
ChatInputs == {<<>>, <<" ">>, <<"h">>, <<" ", "h">>}

\* what aiServiceClient.chat resolves with
Responses == {<<"o", "k">>}

\* messages.slice(-10) (line 482)
HistoryLength == 10

slice(msgs, n) ==
  IF Len(msgs) <= n THEN msgs ELSE SubSeq(msgs, Len(msgs) - n + 1, Len(msgs))

Message(role, content, isError) == [role |-> role, content |-> content, isError |-> isError]

\* the welcome message of checkAIStatus (lines 442-446)
Welcome == Message("assistant", <<"welcome">>, FALSE)

NoRequest == [pending |-> FALSE, message |-> <<>>, history |-> <<>>]

\* the panel as useState creates it (lines 424-427)
InitialChat ==
  [ mounted |-> FALSE, messages |-> <<>>, input |-> <<>>, isLoading |-> FALSE,
    available |-> FALSE, request |-> NoRequest, statusChecks |-> 0,
    calls |-> 0, uncaught |-> FALSE, events |-> 0 ]

\* checkAIStatus (lines 436-448), up to the await
checkAIStatus(c) == [c EXCEPT !.statusChecks = @ + 1]

\* checkAIStatus after the await: the status is stored, and when the service
\* is available the message list becomes the welcome message
StatusResolved(c, available) ==
  [c EXCEPT !.statusChecks = @ - 1,
            !.available = available,
            !.messages = IF available THEN <<Welcome>> ELSE @]

\* checkAvailability rejects: checkAIStatus has no catch
StatusRejected(c) == [c EXCEPT !.statusChecks = @ - 1, !.uncaught = TRUE]

\* sendMessage without the isLoading test
sendMessageWhileLoading(c) ==
  IF trim(c.input) = <<>> THEN [c EXCEPT !.calls = @ + 1]
  ELSE [c EXCEPT !.calls = @ + 1,
                 !.messages = Append(@, Message("user", c.input, FALSE)),
                 !.input = <<>>,
                 !.isLoading = TRUE,
                 !.request = [pending |-> TRUE, message |-> c.input,
                              history |-> slice(c.messages, HistoryLength)]]

\* sendMessage (lines 455-480), up to the await of aiServiceClient.chat
sendMessage(c) ==
  IF trim(c.input) = <<>> \/ c.isLoading THEN [c EXCEPT !.calls = @ + 1]
  ELSE [c EXCEPT !.calls = @ + 1,
                 !.messages = Append(@, Message("user", c.input, FALSE)),
                 !.input = <<>>,
                 !.isLoading = TRUE,
                 !.request = [pending |-> TRUE, message |-> c.input,
                              history |-> slice(c.messages, HistoryLength)]]

\* sendMessage after the await, the request resolved (lines 486-493, 502-505)
ChatResolved(c, response) ==
  [c EXCEPT !.messages = Append(@, Message("assistant", response, FALSE)),
            !.isLoading = FALSE,
            !.request = NoRequest]

\* sendMessage after the await, the request rejected (lines 494-505)
ChatRejected(c, reason) ==
  [c EXCEPT !.messages = Append(@, Message("assistant", <<"error", reason>>, TRUE)),
            !.isLoading = FALSE,
            !.request = NoRequest]

\* clearChat (lines 515-518)
clearChat(c) == checkAIStatus([c EXCEPT !.messages = <<>>])

(***************************************************************************)
(* The actions: one per event-loop task.                                   *)
(***************************************************************************)
InitialHost ==
  /\ phase = "uninitialized"
  /\ events = 0
  /\ editorRef = 0
  /\ saveTimeoutRef = 0
  /\ modelRef = 0
  /\ disposablesRef = <<>>
  /\ isDisposedRef = FALSE
  /\ initCleanup = 0
  /\ editorState = [isLoading |-> FALSE, hasUnsavedChanges |-> FALSE,
                    language |-> "javascript"]
  /\ editors = <<>>
  /\ models = <<>>
  /\ listeners = <<>>
  /\ timers = {}
  /\ nextTimer = 1
  /\ persistLog = <<>>
  /\ errors = <<>>
  /\ uncaught = FALSE
  /\ edits = 0
  /\ sinceChange = 0
  /\ teardowns = 0
  /\ themeDefs = 0
  /\ monacoTheme = ""
  /\ loadFailures = 0
  /\ peakModels = 0

Init ==
  /\ InitialHost
  /\ props \in [theme : {DefaultTheme}, fontSize : {DefaultFontSize},
                autoSave : BOOLEAN, autoSaveDelay : {DefaultDelay}]
  /\ currentFile \in Files \cup {NoFile}
  /\ toolbar = NoToolbar
  /\ chat = InitialChat

\* what is configured when a persist call is made
Config ==
  [autoSaveDelay |-> props.autoSaveDelay, fileId |-> currentFile.id,
   autoSave |-> props.autoSave]

\* the first commit: every effect runs, in the order of the source
Mount ==
  /\ phase = "uninitialized"
  /\ \E fault \in LoadFaults :
       LET r == Render(currentFile, props)
           s1 == InitEffect(Cur, r)
           s2 == LoadEffect(s1, r, fault)
           s3 == ThemeEffect(s2, r)
           s4 == FontSizeEffect(s3, r)
       IN  Commit(s4)
  /\ phase' = "mounted"
  /\ UNCHANGED <<props, currentFile, events>>
  /\ UNCHANGED <<toolbar, chat>>

\* a commit after the parent passed props p or the context made file current:
\* the cleanups of the effects whose dependencies changed run, then their
\* bodies.  handleSave and debouncedSave are dependencies of the init effect
\* and change with currentFile, autoSave and autoSaveDelay.
Update(file, p) ==
  /\ phase = "mounted"
  /\ events < MaxEvents
  /\ <<file, p>> # <<currentFile, props>>
  /\ \E throws \in BOOLEAN, fault \in LoadFaults :
       LET r == Render(file, p)
           c1 == InitCleanup(Cur, throws)
           s1 == InitEffect(c1, r)
           s2 == IF file # currentFile THEN LoadEffect(s1, r, fault) ELSE s1
           s3 == IF p.theme # props.theme THEN ThemeEffect(s2, r) ELSE s2
           s4 == IF p.fontSize # props.fontSize THEN FontSizeEffect(s3, r) ELSE s3
       IN  Commit(s4)
  /\ props' = p
  /\ currentFile' = file
  /\ events' = events + 1
  /\ UNCHANGED phase
  /\ UNCHANGED <<toolbar, chat>>

SetTheme == \E th \in Themes : Update(currentFile, [props EXCEPT !.theme = th])

SetFontSize == \E fs \in FontSizes : Update(currentFile, [props EXCEPT !.fontSize = fs])

SetAutoSave == \E a \in BOOLEAN : Update(currentFile, [props EXCEPT !.autoSave = a])

SetAutoSaveDelay == \E d \in Delays : Update(currentFile, [props EXCEPT !.autoSaveDelay = d])

SetCurrentFile == \E f \in Files \cup {NoFile} : Update(f, props)

\* the component is removed: every pending cleanup runs, in the order of the source
Unmount ==
  /\ phase = "mounted"
  /\ \E th1 \in BOOLEAN, th2 \in BOOLEAN :
       Commit(UnmountCleanup(InitCleanup(Cur, th1), th2))
  /\ phase' = "unmounted"
  /\ UNCHANGED <<props, currentFile, events>>
  /\ UNCHANGED <<toolbar, chat>>

\* the user edits the text of a live editor
ContentChange ==
  /\ events < MaxEvents
  /\ \E e \in DOMAIN editors, k \in Keys :
       /\ editors[e].live
       /\ editors[e].model # 0
       /\ Commit(ChangeContent(Cur, e, Append(EditorValue(Cur, e).text, k)))
  /\ events' = events + 1
  /\ UNCHANGED <<phase, props, currentFile>>
  /\ UNCHANGED <<toolbar, chat>>

\* a Ctrl/Cmd+S command that closes over the file of some earlier render
SaveStaleClosure ==
  /\ events < MaxEvents
  /\ \E e \in DOMAIN editors, f \in Files :
       /\ editors[e].live
       /\ Commit(handleSave(Cur, [editors[e].closure EXCEPT !.file = f], Config))
  /\ events' = events + 1
  /\ UNCHANGED <<phase, props, currentFile>>
  /\ UNCHANGED <<toolbar, chat>>

\* the user presses Ctrl/Cmd+S in a live editor: the command added at line 246
Save ==
  /\ events < MaxEvents
  /\ \E e \in DOMAIN editors :
       /\ editors[e].live
       /\ Commit(handleSave(Cur, editors[e].closure, Config))
  /\ events' = events + 1
  /\ UNCHANGED <<phase, props, currentFile>>
  /\ UNCHANGED <<toolbar, chat>>

\* a timeout whose delay has elapsed fires
TimerFire ==
  /\ \E tm \in timers :
       /\ tm.left = 0
       /\ Commit(TimerCallback(Cur, tm, Config))
  /\ UNCHANGED <<phase, props, currentFile, events>>
  /\ UNCHANGED <<toolbar, chat>>

PersistResolve ==
  /\ \E i \in DOMAIN persistLog :
       /\ persistLog[i].status = "pending"
       /\ Commit(PersistResolved(Cur, i, phase = "mounted"))
  /\ UNCHANGED <<phase, props, currentFile, events>>
  /\ UNCHANGED <<toolbar, chat>>

PersistReject ==
  /\ \E i \in DOMAIN persistLog, reason \in Reasons :
       /\ persistLog[i].status = "pending"
       /\ Commit(PersistRejected(Cur, i, reason, phase = "mounted"))
  /\ UNCHANGED <<phase, props, currentFile, events>>
  /\ UNCHANGED <<toolbar, chat>>

\* one unit of time passes, whether or not a timeout is running
Tick ==
  /\ timers' = {[tm EXCEPT !.left = IF @ > 0 THEN @ - 1 ELSE 0] : tm \in timers}
  /\ sinceChange' = IF sinceChange < MaxDelay THEN sinceChange + 1 ELSE sinceChange
  /\ UNCHANGED <<phase, props, currentFile, events, editorRef, saveTimeoutRef, modelRef,
                 disposablesRef, isDisposedRef, initCleanup, editorState, editors,
                 models, listeners, nextTimer, persistLog, errors, uncaught,
                 edits, teardowns, themeDefs, monacoTheme, loadFailures, peakModels>>
  /\ UNCHANGED <<toolbar, chat>>

Next ==
  \/ Mount
  \/ SetTheme
  \/ SetFontSize
  \/ SetAutoSave
  \/ SetAutoSaveDelay
  \/ SetCurrentFile
  \/ Unmount
  \/ ContentChange
  \/ Save
  \/ TimerFire
  \/ PersistResolve
  \/ PersistReject
  \/ Tick

Spec == Init /\ [][Next]_vars

\* The life of the component in one page: after an unmount the component is
\* mounted again.  The new instance has refs and state of its own; the editor
\* library, with its themes, is the one of the page.
Remount ==
  /\ phase = "unmounted"
  /\ events < MaxEvents
  /\ phase' = "uninitialized"
  /\ events' = events + 1
  /\ editorRef' = 0
  /\ saveTimeoutRef' = 0
  /\ modelRef' = 0
  /\ disposablesRef' = <<>>
  /\ isDisposedRef' = FALSE
  /\ initCleanup' = 0
  /\ editorState' = [isLoading |-> FALSE, hasUnsavedChanges |-> FALSE,
                     language |-> "javascript"]
  /\ UNCHANGED <<props, currentFile, editors, models, listeners, timers, nextTimer,
                 persistLog, errors, uncaught, edits, sinceChange, teardowns,
                 themeDefs, monacoTheme, loadFailures, peakModels>>
  /\ UNCHANGED <<toolbar, chat>>

NextPage ==
  \/ Mount
  \/ SetTheme
  \/ SetFontSize
  \/ SetAutoSave
  \/ SetAutoSaveDelay
  \/ SetCurrentFile
  \/ Unmount
  \/ Remount

SpecPage == Init /\ [][NextPage]_vars

\* The language detection on its own: every bounded file name is mounted.
InitLang ==
  /\ InitialHost
  /\ props = [theme |-> DefaultTheme, fontSize |-> DefaultFontSize,
              autoSave |-> TRUE, autoSaveDelay |-> DefaultDelay]
  /\ currentFile \in [id : {"f1"}, name : FileNames \cup {NoName}, content : {<<"a">>}]
  /\ toolbar = NoToolbar
  /\ chat = InitialChat

NextLang == Mount

SpecLang == InitLang /\ [][NextLang]_vars


(***************************************************************************)
(* The toolbar on its own: it is rendered for some file, user and project; *)
(* the contexts then change and Run is used.                               *)
(***************************************************************************)
InitToolbar ==
  /\ InitialHost
  /\ props = [theme |-> DefaultTheme, fontSize |-> DefaultFontSize,
              autoSave |-> TRUE, autoSaveDelay |-> DefaultDelay]
  /\ currentFile = NoFile
  /\ chat = InitialChat
  /\ toolbar \in {ToolbarWith(f, u, p) : f \in ToolbarFiles \cup {NoToolbarFile},
                                        u \in Users \cup {NoUser},
                                        p \in Projects \cup {NoProject}}

\* the project context makes another file current: handleRunCode is made anew
ToolbarSetFile ==
  /\ toolbar.events < MaxToolbarEvents
  /\ \E f \in OpenFiles :
       /\ f # toolbar.file
       /\ toolbar' = [toolbar EXCEPT !.file = f,
                                     !.run = RunClosure(f, toolbar.user, toolbar.project),
                                     !.events = @ + 1]
  /\ UNCHANGED <<hostVars, chat>>

\* the project context loads or drops the project: handleRunCode is made anew
ToolbarSetProject ==
  /\ toolbar.events < MaxToolbarEvents
  /\ \E p \in Projects \cup {NoProject} :
       /\ p # toolbar.project
       /\ toolbar' = [toolbar EXCEPT !.project = p,
                                     !.run = RunClosure(toolbar.file, toolbar.user, p),
                                     !.events = @ + 1]
  /\ UNCHANGED <<hostVars, chat>>

\* the auth context loads or drops the user: user is no dependency of
\* handleRunCode (line 224), so the callback of the earlier render is kept
ToolbarSetUser ==
  /\ toolbar.events < MaxToolbarEvents
  /\ \E u \in Users \cup {NoUser} :
       /\ u # toolbar.user
       /\ toolbar' = [toolbar EXCEPT !.user = u, !.events = @ + 1]
  /\ UNCHANGED <<hostVars, chat>>

\* the user clicks the Run button, which is rendered and enabled
ClickRun ==
  /\ toolbar.events < MaxToolbarEvents
  /\ RunEnabled(toolbar)
  /\ toolbar' = [handleRunCode(toolbar, toolbar.run) EXCEPT !.clicks = @ + 1,
                                                          !.events = @ + 1]
  /\ UNCHANGED <<hostVars, chat>>

\* handleRunCode is called, whatever the button shows
RunCode ==
  /\ toolbar.events < MaxToolbarEvents
  /\ toolbar' = [handleRunCode(toolbar, toolbar.run) EXCEPT !.events = @ + 1]
  /\ UNCHANGED <<hostVars, chat>>

NextToolbar ==
  \/ ToolbarSetFile
  \/ ToolbarSetProject
  \/ ToolbarSetUser
  \/ ClickRun
  \/ RunCode

SpecToolbar == InitToolbar /\ [][NextToolbar]_vars

(***************************************************************************)
(* The chat panel on its own.                                              *)
(***************************************************************************)
InitChat ==
  /\ InitialHost
  /\ props = [theme |-> DefaultTheme, fontSize |-> DefaultFontSize,
              autoSave |-> TRUE, autoSaveDelay |-> DefaultDelay]
  /\ currentFile = NoFile
  /\ toolbar = NoToolbar
  /\ chat = InitialChat

\* the prompts of the quick-prompt buttons (lines 525-530), as one text
QuickPrompts == {<<"e", "x", "p", "l", "a", "i", "n">>}

\* the mount effect (lines 432-434)
ChatMount ==
  /\ ~chat.mounted
  /\ chat' = checkAIStatus([chat EXCEPT !.mounted = TRUE])
  /\ UNCHANGED <<hostVars, toolbar>>

\* aiServiceClient.checkAvailability() resolves
ChatStatusResolve ==
  /\ chat.statusChecks > 0
  /\ \E available \in BOOLEAN : chat' = StatusResolved(chat, available)
  /\ UNCHANGED <<hostVars, toolbar>>

\* aiServiceClient.checkAvailability() rejects
ChatStatusReject ==
  /\ chat.statusChecks > 0
  /\ chat' = StatusRejected(chat)
  /\ UNCHANGED <<hostVars, toolbar>>

\* the user types in the textarea (line 659), which is enabled
SetInput ==
  /\ chat.available
  /\ ~chat.isLoading
  /\ chat.events < MaxChatEvents
  /\ \E text \in ChatInputs :
       /\ text # chat.input
       /\ chat' = [chat EXCEPT !.input = text, !.events = @ + 1]
  /\ UNCHANGED <<hostVars, toolbar>>

\* insertQuickPrompt (lines 520-523); the buttons are rendered while there is
\* at most one message (line 587)
InsertQuickPrompt ==
  /\ chat.available
  /\ Len(chat.messages) <= 1
  /\ chat.events < MaxChatEvents
  /\ \E prompt \in QuickPrompts :
       chat' = [chat EXCEPT !.input = prompt, !.events = @ + 1]
  /\ UNCHANGED <<hostVars, toolbar>>

\* sendMessage is called: Enter in the textarea or the send button, and any
\* call made while the two are disabled
SendMessage ==
  /\ chat.mounted
  /\ chat.events < MaxChatEvents
  /\ chat' = [sendMessage(chat) EXCEPT !.events = @ + 1]
  /\ UNCHANGED <<hostVars, toolbar>>

\* aiServiceClient.chat resolves
ChatResolve ==
  /\ chat.request.pending
  /\ \E response \in Responses : chat' = ChatResolved(chat, response)
  /\ UNCHANGED <<hostVars, toolbar>>

\* aiServiceClient.chat rejects
ChatReject ==
  /\ chat.request.pending
  /\ \E reason \in Reasons : chat' = ChatRejected(chat, reason)
  /\ UNCHANGED <<hostVars, toolbar>>

\* the user clicks the clear button (line 578)
ClearChat ==
  /\ chat.available
  /\ chat.events < MaxChatEvents
  /\ chat' = [clearChat(chat) EXCEPT !.events = @ + 1]
  /\ UNCHANGED <<hostVars, toolbar>>

NextChat ==
  \/ ChatMount
  \/ ChatStatusResolve
  \/ ChatStatusReject
  \/ SetInput
  \/ InsertQuickPrompt
  \/ SendMessage
  \/ ChatResolve
  \/ ChatReject
  \/ ClearChat

SpecChat == InitChat /\ [][NextChat]_vars

(***************************************************************************)
(* Properties.                                                             *)
(***************************************************************************)
\* the host has a usable session
HostReady ==
  /\ ~isDisposedRef
  /\ editorRef # 0
  /\ editors[editorRef].live

Auto(i) == i \in DOMAIN persistLog /\ persistLog[i].kind = "auto"
Manual(i) == i \in DOMAIN persistLog /\ persistLog[i].kind = "manual"

\* persist call i settles in this step
Settles(i) ==
  /\ i \in DOMAIN persistLog
  /\ persistLog[i].status = "pending"
  /\ persistLog'[i].status # "pending"

\* C1: every debounced persist call carries the identifier of the current
\* file and the content of the latest content-change event, is made no
\* earlier than the configured delay after that event, and no two debounced
\* calls are made for the same event: the events of one debounce window
\* cause one call, with the content of the last of them.
C1_DebounceLastWriteWins ==
  /\ \A i \in DOMAIN persistLog :
       Auto(i) =>
         /\ persistLog[i].id = persistLog[i].cfgFile
         /\ persistLog[i].content.ver = persistLog[i].bufVer
         /\ persistLog[i].elapsed >= persistLog[i].cfgDelay
  /\ \A i, j \in DOMAIN persistLog :
       Auto(i) /\ Auto(j) /\ i # j => persistLog[i].content.ver # persistLog[j].content.ver

\* two content changes, then one call with the content of the second
C1_Witness ==
  /\ Len(persistLog) = 1
  /\ Auto(1)
  /\ persistLog[1].content.ver = 2
  /\ persistLog[1].content.text = <<"a", "b", "b">>
  /\ persistLog[1].id = "f1"

\* C2: a change of theme or fontSize on a ready host leaves the host ready,
\* with a live session.
C2_ReadyAfterReconfiguration ==
  [][ ( /\ phase = "mounted" /\ phase' = "mounted"
        /\ HostReady
        /\ (props'.theme # props.theme \/ props'.fontSize # props.fontSize) )
      => HostReady' ]_vars

\* C3, as stated: when a persist call is rejected with reason R, the error
\* channel receives a message containing R and hasUnsavedChanges is true
\* afterwards.
C3_RejectLeavesUnsavedTrue ==
  [][ \A i \in DOMAIN persistLog :
        (Settles(i) /\ persistLog'[i].status = "failed") =>
          /\ Len(errors') = Len(errors) + 1
          /\ errors'[Len(errors')][2] = persistLog'[i].reason
          /\ editorState'.hasUnsavedChanges = TRUE ]_vars

\* C3, amended: when a persist call is rejected with reason R, the error
\* channel receives one message containing R and hasUnsavedChanges keeps the
\* value it had: it stays true if it was true.
C3_RejectReportsAndKeepsFlag ==
  [][ \A i \in DOMAIN persistLog :
        (Settles(i) /\ persistLog'[i].status = "failed") =>
          /\ Len(errors') = Len(errors) + 1
          /\ errors'[Len(errors')][2] = persistLog'[i].reason
          /\ persistLog'[i].reason \in Reasons
          /\ editorState'.hasUnsavedChanges = editorState.hasUnsavedChanges ]_vars

\* a debounced and a manual persist have both been rejected, after an edit
C3_Witness ==
  /\ \E i, j \in DOMAIN persistLog :
       /\ Auto(i) /\ persistLog[i].status = "failed"
       /\ Manual(j) /\ persistLog[j].status = "failed"
  /\ Len(errors) = 2
  /\ editorState.hasUnsavedChanges

\* C4: a manual save persists the content the buffer has at that moment,
\* whatever timeouts are running, and the contents the persist calls carry
\* never go back: no call carries content older than an earlier call's.
C4_ManualSaveNotOverwritten ==
  /\ \A i \in DOMAIN persistLog :
       Manual(i) => persistLog[i].content.ver = persistLog[i].bufVer
  /\ \A i, j \in DOMAIN persistLog :
       i < j => persistLog[i].content.ver <= persistLog[j].content.ver

\* a manual save made while the timeout was running, an edit after it, and
\* the debounced persist of that edit
C4_Witness ==
  \E i, j \in DOMAIN persistLog :
    /\ i < j
    /\ Manual(i) /\ persistLog[i].timersPending > 0
    /\ persistLog[i].elapsed < persistLog[i].cfgDelay
    /\ Auto(j) /\ persistLog[j].content.ver > persistLog[i].content.ver

\* C5: no cleanup lets an exception escape, and from the first cleanup on
\* the host is disposed.
C5_TeardownTwice ==
  /\ ~uncaught
  /\ teardowns >= 1 => isDisposedRef /\ editorRef = 0

\* the cleanups have run twice
C5_Witness ==
  /\ teardowns >= 2
  /\ isDisposedRef
  /\ phase = "unmounted"

\* C6: a disposed host has no timeout running and no persist call is made
\* while the host is disposed.
C6_TeardownCancelsPending ==
  /\ isDisposedRef => timers = {}
  /\ \A i \in DOMAIN persistLog : ~persistLog[i].disposed

\* the timeout of the latest edit was running when the host was torn down
C6_Witness ==
  /\ isDisposedRef
  /\ edits >= 1
  /\ Len(editors) = 1
  /\ editors[1].closure.autoSave
  /\ editors[1].closure.file # NoFile
  /\ saveTimeoutRef = 0
  /\ ~ \E i \in DOMAIN persistLog : Auto(i) /\ persistLog[i].content.ver = edits

\* C7: a persist call that settles after the host was disposed changes no
\* field of the editor state.
C7_SettleAfterTeardownIsNoop ==
  [][ \A i \in DOMAIN persistLog :
        (isDisposedRef /\ Settles(i)) => editorState' = editorState ]_vars

\* C8: when the current file of a ready host changes to a file, the session
\* shows a buffer with that file's content and the detected language is the
\* one of the file's name.
C8_LoadOnFileChange ==
  [][ ( /\ phase = "mounted" /\ phase' = "mounted"
        /\ HostReady
        /\ currentFile' # currentFile
        /\ currentFile' # NoFile
        /\ errors' = errors
        /\ ~editorState'.isLoading )
      => /\ editorState'.language = getLanguageFromExtension(currentFile'.name)
         /\ editorRef' # 0
         /\ editors'[editorRef'].model # 0
         /\ models'[editors'[editorRef'].model].content.text = currentFile'.content ]_vars

\* the part after the last dot, when the name has a dot
HasDot(name) == \E i \in DOMAIN name : name[i] = "."

\* the language the table gives a name, read as an exact match on the extension
TableLanguage(name) ==
  IF name # NoName /\ HasDot(name) /\ toLowerCase(SplitPop(name)) \in DOMAIN languageMap
  THEN languageMap[toLowerCase(SplitPop(name))]
  ELSE "plaintext"

\* C9: the detected language of a loaded file is the table's language of the
\* lower-cased extension of its name, and plaintext for every name without a
\* matching extension, without a dot, or missing.
C9_ExactMatchLookup ==
  (phase = "mounted" /\ modelRef # 0 /\ ~editorState.isLoading)
    => editorState.language = TableLanguage(currentFile.name)

\* C10: when the current file changes from a loaded file to none, the buffer
\* of the session is empty, the detected language is the default, and no
\* exception escapes.
C10_LoadNullClears ==
  [][ ( /\ phase = "mounted" /\ phase' = "mounted"
        /\ HostReady
        /\ currentFile # NoFile
        /\ modelRef # 0
        /\ currentFile' = NoFile )
      => /\ editorState'.language = DefaultLanguage
         /\ editorRef' # 0
         /\ \/ editors'[editorRef'].model = 0
            \/ models'[editors'[editorRef'].model].content.text = <<>>
         /\ ~uncaught' ]_vars

\* C11: a load whose attach fails aborts cleanly.  Every handler runs to its
\* end within one step, so no load is executing in any state: in every state
\* isLoading is false, and while the host has a session, a live buffer it
\* retains in modelRef is the one the session shows, never one that was
\* created and not attached.
C11_AttachFailureAborts ==
  /\ ~editorState.isLoading
  /\ (editorRef # 0 /\ modelRef # 0 /\ models[modelRef].live)
       => editors[editorRef].model = modelRef

\* the load failures that were reported through setError
LoadErrors == {i \in DOMAIN errors : errors[i][1] = "Failed to load file: "}

\* C12: every failure of a load, in constructing the buffer or in attaching
\* it, is caught and reported: as many load errors have reached setError as
\* loads have failed, and no exception has left a handler.
C12_LoadFailureReported ==
  /\ Cardinality(LoadErrors) = loadFailures
  /\ ~uncaught

\* C13: the buffers of a session never overlap: the earlier buffer is disposed
\* before the next one is created, so at no point of any handler, and in no
\* state, are two text models live at once.
C13_SingleLiveModel ==
  /\ peakModels <= 1
  /\ Cardinality(LiveModels([models |-> models])) <= 1

\* the session shows a file whose content the user has edited
UnsavedEdit ==
  /\ HostReady
  /\ currentFile # NoFile
  /\ editorState.hasUnsavedChanges
  /\ editors[editorRef].model # 0
  /\ models[editors[editorRef].model].content.ver > 0
  /\ models[editors[editorRef].model].content.text # currentFile.content

\* C14: a change of theme or font size loses no unsaved edit: after the
\* change the session still shows the edited content, or a persist call has
\* been made with it, or a debounce timer that will persist it is running.
C14_AppearanceChangeKeepsEdits ==
  [][ ( /\ phase = "mounted" /\ phase' = "mounted"
        /\ UnsavedEdit
        /\ \/ props'.theme # props.theme
           \/ props'.fontSize # props.fontSize )
      => LET before == models[editors[editorRef].model].content
         IN  \/ /\ editorRef' # 0
                /\ editors'[editorRef'].live
                /\ editors'[editorRef'].model # 0
                /\ models'[editors'[editorRef'].model].content = before
             \/ \E i \in DOMAIN persistLog' : persistLog'[i].content = before
             \/ \E tm \in timers' : tm.content = before ]_vars

\* the sessions that have not been disposed
LiveEditors == {e \in DOMAIN editors : editors[e].live}

\* C15: at most one session is live for the mount point in every state: a
\* session is created only when every earlier one has been disposed.
C15_SingleLiveSession ==
  /\ Cardinality(LiveEditors) <= 1
  /\ \A e \in LiveEditors : e = Len(editors) /\ editorRef = e

\* a session was created, and a re-initialisation has disposed it
C15_Witness ==
  /\ phase = "mounted"
  /\ Len(editors) = 1
  /\ editors[1].disposeCalls = 1
  /\ LiveEditors = {}
  /\ events > 0

\* C16: the dispose of a session, a buffer or a listener is performed at most
\* once per resource, and no step performs a dispose call on a resource that
\* is already disposed.
C16_ReleaseChecksLiveness ==
  [][ /\ \A e \in DOMAIN editors' : editors'[e].disposeCalls <= 1
      /\ \A m \in DOMAIN models' : models'[m].disposeCalls <= 1
      /\ \A l \in DOMAIN listeners' : listeners'[l].disposeCalls <= 1
      /\ \A e \in DOMAIN editors :
           ~editors[e].live => editors'[e].disposeCalls = editors[e].disposeCalls
      /\ \A m \in DOMAIN models :
           ~models[m].live => models'[m].disposeCalls = models[m].disposeCalls
      /\ \A l \in DOMAIN listeners :
           ~listeners[l].live => listeners'[l].disposeCalls = listeners[l].disposeCalls ]_vars

\* both cleanups have run, one after the other: the session was released by
\* the first and the buffer of the loaded file by the second, each once, and
\* the buffer the session had created itself went with the session
C16_Witness ==
  /\ phase = "unmounted"
  /\ teardowns = 2
  /\ events > 0
  /\ Len(editors) = 1
  /\ ~editors[1].live /\ editors[1].disposeCalls = 1
  /\ Len(models) = 2
  /\ ~models[1].live /\ models[1].disposeCalls = 0
  /\ ~models[2].live /\ models[2].disposeCalls = 1
  /\ modelRef = 0 /\ editorRef = 0

\* C17: a load that fails leaves the view state as it was, with isLoading
\* false: the detected language and the unsaved flag keep their values.
C17_FailedLoadKeepsViewState ==
  [][ loadFailures' > loadFailures
      => /\ ~editorState'.isLoading
         /\ editorState'.language = editorState.language
         /\ editorState'.hasUnsavedChanges = editorState.hasUnsavedChanges ]_vars

\* C18: a failed persist is not retried.  The step in which a persist call
\* is rejected makes no persist call and sets no timer; a persist call is only
\* ever made by a press of Ctrl/Cmd+S or by the firing of a debounce timer,
\* and a debounce timer is only ever set by a content-change event.
C18_NoAutomaticRetry ==
  [][ /\ (\E i \in DOMAIN persistLog : Settles(i) /\ persistLog'[i].status = "failed")
         => /\ Len(persistLog') = Len(persistLog)
            /\ timers' = timers
      /\ Len(persistLog') > Len(persistLog)
         => /\ Len(persistLog') = Len(persistLog) + 1
            /\ \/ /\ persistLog'[Len(persistLog')].kind = "manual"
                  /\ events' = events + 1
               \/ /\ persistLog'[Len(persistLog')].kind = "auto"
                  /\ \E tm \in timers : tm.left = 0 /\ tm \notin timers'
      /\ (\E tm \in timers' : \A old \in timers : old.id # tm.id)
         => edits' > edits ]_vars

\* a persist call was rejected and reported, and nothing was called or
\* scheduled after it
C18_Witness ==
  /\ Len(persistLog) = 1
  /\ persistLog[1].status = "failed"
  /\ Len(errors) = 1
  /\ timers = {}
  /\ events = 1

\* C19: every content-change event sets the unsaved flag, and it schedules a
\* debounced persist exactly when autoSave is enabled; no debounced persist
\* call is ever made while autoSave is disabled, so with autoSave disabled
\* every persist call is a manual save.
C19_AutoSaveGatesDebounce ==
  [][ /\ edits' > edits
         => /\ editorState'.hasUnsavedChanges
            /\ (nextTimer' > nextTimer) <=> props.autoSave
            /\ props.autoSave
                 => \E tm \in timers' :
                      /\ tm.id = saveTimeoutRef'
                      /\ tm.content.ver = edits'
      /\ \A i \in DOMAIN persistLog' :
           persistLog'[i].kind = "auto" => persistLog'[i].cfgAutoSave ]_vars

\* autoSave is disabled: an edit has set the flag and scheduled nothing, and
\* the only persist call is the manual save
C19_Witness ==
  /\ ~props.autoSave
  /\ currentFile # NoFile
  /\ edits = 1
  /\ editorState.hasUnsavedChanges
  /\ nextTimer = 1
  /\ timers = {}
  /\ Len(persistLog) = 1
  /\ Manual(1)
  /\ persistLog[1].content.ver = 1

\* C20: the themes are registered once for the life of the page: however
\* often the component is mounted or re-initialised, defineTheme has been
\* called at most once for each theme.
C20_ThemesRegisteredOnce == themeDefs <= Cardinality(ThemeNames)

\* C21: while a file is loaded and the unsaved flag is false, the buffer of
\* the session holds the content the file was loaded with or the content of
\* a persist call for that file that has succeeded: the completion of a
\* persist call made before a later edit does not clear the flag for that edit.
C21_CleanFlagMeansPersisted ==
  ( /\ phase = "mounted"
    /\ HostReady
    /\ currentFile # NoFile
    /\ editors[editorRef].model # 0
    /\ editors[editorRef].model = modelRef
    /\ ~editorState.isLoading
    /\ ~editorState.hasUnsavedChanges )
  => LET buffer == models[modelRef].content
     IN  \/ buffer.text = currentFile.content
         \/ \E i \in DOMAIN persistLog :
              /\ persistLog[i].status = "ok"
              /\ persistLog[i].id = currentFile.id
              /\ persistLog[i].content = buffer

\* C22: with autoSave enabled, a switch of the current file discards no
\* pending debounced persist: after the switch, for every timer that was
\* running for an edit of the earlier file, that timer is still running or a
\* persist call carries its content under the earlier file's identifier.
C22_SwitchKeepsPendingPersist ==
  [][ ( /\ phase = "mounted" /\ phase' = "mounted"
        /\ props.autoSave /\ props'.autoSave
        /\ currentFile # NoFile
        /\ currentFile' # currentFile )
      => \A tm \in timers :
           (tm.closure.file = currentFile /\ tm.closure.autoSave)
             => \/ \E t2 \in timers' : t2.id = tm.id
                \/ \E i \in DOMAIN persistLog' :
                     /\ persistLog'[i].id = currentFile.id
                     /\ persistLog'[i].content = tm.content ]_vars

\* C23: every persist call, debounced or manual, pairs the identifier of
\* the file that is current when the call is made with the content the
\* buffer holds at that moment, so the content was in the buffer while that
\* file was current: content typed into one file is never persisted under
\* the identifier of another.
C23_IdMatchesContent ==
  \A i \in DOMAIN persistLog :
    /\ persistLog[i].id # NoFile.id
    /\ persistLog[i].id = persistLog[i].cfgFile
    /\ persistLog[i].content.ver = persistLog[i].bufVer

\* an edit of f1 was persisted under f1, by the timer and by Ctrl/Cmd+S or
\* by either, and the current file was switched to f2 afterwards
C23_Witness ==
  /\ currentFile.id = "f2"
  /\ Len(persistLog) >= 1
  /\ persistLog[1].id = "f1"
  /\ persistLog[1].content.text = <<"a", "b">>

\* handleRunCode is called in this step: the toolbar is not re-rendered
RunCalled ==
  /\ toolbar'.events = toolbar.events + 1
  /\ toolbar'.file = toolbar.file
  /\ toolbar'.user = toolbar.user
  /\ toolbar'.project = toolbar.project

\* the events this step has dispatched
Dispatched ==
  SubSeq(toolbar'.dispatched, Len(toolbar.dispatched) + 1, Len(toolbar'.dispatched))

\* the file has content and the last dot-separated part of its name, in lower
\* case, is a case label of the switch
Runnable(file) ==
  /\ file.loaded
  /\ file.content # <<>>
  /\ file.name # NoName
  /\ Extension(file.name) \in DOMAIN runCases

\* C24: a call of handleRunCode on a current file with content and a
\* recognised extension dispatches one run-in-terminal event with the command
\* of that extension for that file and then one show-terminal event, and
\* nothing else; a call on any other file dispatches nothing.
C24_RunDispatchesOnce ==
  [][ RunCalled
      => /\ SubSeq(toolbar'.dispatched, 1, Len(toolbar.dispatched)) = toolbar.dispatched
         /\ IF Runnable(toolbar.file)
            THEN /\ Len(Dispatched) = 2
                 /\ Dispatched[1].type = "run-in-terminal"
                 /\ Dispatched[1].detail.tool = runCases[Extension(toolbar.file.name)]
                 /\ Dispatched[1].detail.file = toolbar.file.name
                 /\ Dispatched[2].type = "show-terminal"
            ELSE Dispatched = <<>> ]_vars

\* Run on a python file has dispatched the two events, and Run on the file
\* switched to afterwards, which has no case, has dispatched nothing
C24_Witness ==
  /\ Len(toolbar.dispatched) = 2
  /\ toolbar.dispatched[1].type = "run-in-terminal"
  /\ toolbar.dispatched[1].detail.tool = "python"
  /\ toolbar.dispatched[2].type = "show-terminal"
  /\ toolbar.warned = 1
  /\ toolbar.events = 3

\* C25: the Run button is offered only for files Run can handle: a call of
\* handleRunCode on a file that isExecutableFile accepts and that has content
\* dispatches a run-in-terminal event with a command.
C25_ExecutableFilesRun ==
  [][ ( /\ RunCalled
        /\ isExecutableFile(toolbar.file)
        /\ toolbar.file.content # <<>> )
      => /\ Dispatched # <<>>
         /\ Dispatched[1].type = "run-in-terminal"
         /\ Dispatched[1].detail.tool # "" ]_vars

\* C26: a click on the enabled Run button for an .html or .htm file, while
\* the user and the project are loaded, opens the preview URL of that user,
\* project and file, whenever the user was loaded.
C26_HtmlPreviewOpens ==
  [][ ( /\ toolbar'.clicks = toolbar.clicks + 1
        /\ toolbar.file.name # NoName
        /\ Extension(toolbar.file.name) \in {<<"h", "t", "m", "l">>, <<"h", "t", "m">>}
        /\ toolbar.user # NoUser
        /\ toolbar.project # NoProject )
      => toolbar'.opened =
           Append(toolbar.opened,
                  PreviewUrl(toolbar.user, toolbar.project, toolbar.file.name)) ]_vars

\* sendMessage is called in this step
SendCalled == chat'.calls = chat.calls + 1

\* C27: a call of sendMessage with blank input or while isLoading is true
\* changes nothing; an accepted call appends the user's message, clears the
\* input, sets isLoading and starts one request; when the request settles,
\* one assistant message, the reply or an error message, is appended and
\* isLoading is false again.  isLoading is true exactly while a request is
\* in flight.
C27_SendAppendsOneOfEach ==
  [][ /\ (SendCalled /\ (trim(chat.input) = <<>> \/ chat.isLoading))
         => chat' = [chat EXCEPT !.calls = @ + 1, !.events = @ + 1]
      /\ (SendCalled /\ trim(chat.input) # <<>> /\ ~chat.isLoading)
         => /\ chat'.messages = Append(chat.messages, Message("user", chat.input, FALSE))
            /\ chat'.isLoading
            /\ chat'.request.pending
            /\ chat'.request.message = chat.input
      /\ (chat.request.pending /\ ~chat'.request.pending)
         => /\ Len(chat'.messages) = Len(chat.messages) + 1
            /\ SubSeq(chat'.messages, 1, Len(chat.messages)) = chat.messages
            /\ chat'.messages[Len(chat'.messages)].role = "assistant"
            /\ ~chat'.isLoading
      /\ chat'.isLoading <=> chat'.request.pending ]_vars

\* a message was sent, a second call with text in the input was made while
\* the request was in flight and was ignored, and the request failed: the
\* user's message is followed by the error message
C27_Witness ==
  /\ Len(chat.messages) = 2
  /\ chat.messages[1].role = "user"
  /\ chat.messages[2].role = "assistant"
  /\ chat.messages[2].isError
  /\ ~chat.isLoading
  /\ trim(chat.input) # <<>>
  /\ chat.calls = 2
  /\ chat.events = 5

====
